---- MODULE Spec2Model ----
(***************************************************************************)
(* A model of parse-tools' byte cursor (src/bytes/mod.rs): a Cursor over   *)
(* an immutable byte slice with raw navigation, line-terminator            *)
(* normalising navigation (next_lfn / rewind_lfn), the UTF-8 validating    *)
(* advance_char, and the Recorder that captures a traversed range.         *)
(*                                                                         *)
(* Pointers are byte offsets from slice.as_ptr(); the u64 index is four    *)
(* 16-bit limbs (least significant first) so that it keeps its 64 bits.    *)
(* Every method is an operator from the cursor's fields to its new fields  *)
(* and its return value, and one action calls it.                          *)
(***************************************************************************)
EXTENDS Integers, Sequences, FiniteSets, TLC

\* ------------------------------------------------------------- bounds
\* Longest slice handed to Cursor::new.
MaxLen == 3
\* Longest slice advance_char is checked over on its own.
MaxCharLen == 4
\* Longest slice the consumer loop over advance_char is run on.
MaxLoopLen == 3
\* The calls stop raising index at MaxIndex,
MaxIndex == 4
\* and stop lowering it at 2^64 - MaxWrap.
MaxWrap == 1

\* ---------------------------------------------------------- constants
CR == 13
LF == 10
\* Largest value of one 16-bit limb of the u64 index.
LimbMax == 65535

VARIABLES
    buf,      \* the slice the cursor was created over
    first,    \* Cursor.first
    cursor,   \* Cursor.cursor
    end,      \* Cursor.end
    index,    \* Cursor.index
    fault,    \* "none", "wrapped" (index -= 1 wrapped below 0), "panicked"
    rec,      \* the open Recorder, if any, and what it was driven by
    last,     \* the last call: its name, return value and the fields before it
    round     \* how far a forward-then-backward round trip from new has come

vars == <<buf, first, cursor, end, index, fault, rec, last, round>>

\* ------------------------------------------------------------ helpers
\* Option<u8>
None == <<>>
Some(x) == <<x>>

\* u64 arithmetic on limbs.
RECURSIVE IncLimbs(_)
IncLimbs(s) ==
    IF s = <<>> THEN <<>>
    ELSE IF Head(s) = LimbMax THEN <<0>> \o IncLimbs(Tail(s))
    ELSE <<Head(s) + 1>> \o Tail(s)

RECURSIVE DecLimbs(_)
DecLimbs(s) ==
    IF s = <<>> THEN <<>>
    ELSE IF Head(s) = 0 THEN <<LimbMax>> \o DecLimbs(Tail(s))
    ELSE <<Head(s) - 1>> \o Tail(s)

\* A small number as a u64.
U64(n) == <<n, 0, 0, 0>>
\* u64::MAX
U64Max == <<LimbMax, LimbMax, LimbMax, LimbMax>>

\* `index += 1`. It overflows only at u64::MAX. A build with overflow checks
\* never brings index there within MaxIndex, so the sum is the wrapped one.
AddOne(i) == IncLimbs(i)

\* `index -= 1` in a build with (oc) or without overflow checks: at 0 the
\* first panics before anything is written, the second wraps to u64::MAX.
SubOne(i, oc) ==
    [val |-> DecLimbs(i), panic |-> oc /\ i = U64(0), wrap |-> ~oc /\ i = U64(0)]

\* The builds the run so far is compatible with: once index has wrapped the
\* build is known to have no overflow checks.
OverflowChecks == IF fault = "wrapped" THEN {FALSE} ELSE {TRUE, FALSE}

\* *p for a pointer into the slice.
Deref(p) == buf[p - first + 1]

UTF8_CHAR_WIDTH == <<
    1, 1, 1, 1, 1, 1, 1, 1, 1, 1, 1, 1, 1, 1, 1, 1,
    1, 1, 1, 1, 1, 1, 1, 1, 1, 1, 1, 1, 1, 1, 1, 1,
    1, 1, 1, 1, 1, 1, 1, 1, 1, 1, 1, 1, 1, 1, 1, 1,
    1, 1, 1, 1, 1, 1, 1, 1, 1, 1, 1, 1, 1, 1, 1, 1,
    1, 1, 1, 1, 1, 1, 1, 1, 1, 1, 1, 1, 1, 1, 1, 1,
    1, 1, 1, 1, 1, 1, 1, 1, 1, 1, 1, 1, 1, 1, 1, 1,
    1, 1, 1, 1, 1, 1, 1, 1, 1, 1, 1, 1, 1, 1, 1, 1,
    1, 1, 1, 1, 1, 1, 1, 1, 1, 1, 1, 1, 1, 1, 1, 1,
    0, 0, 0, 0, 0, 0, 0, 0, 0, 0, 0, 0, 0, 0, 0, 0,
    0, 0, 0, 0, 0, 0, 0, 0, 0, 0, 0, 0, 0, 0, 0, 0,
    0, 0, 0, 0, 0, 0, 0, 0, 0, 0, 0, 0, 0, 0, 0, 0,
    0, 0, 0, 0, 0, 0, 0, 0, 0, 0, 0, 0, 0, 0, 0, 0,
    0, 0, 2, 2, 2, 2, 2, 2, 2, 2, 2, 2, 2, 2, 2, 2,
    2, 2, 2, 2, 2, 2, 2, 2, 2, 2, 2, 2, 2, 2, 2, 2,
    3, 3, 3, 3, 3, 3, 3, 3, 3, 3, 3, 3, 3, 3, 3, 3,
    4, 4, 4, 4, 4, 0, 0, 0, 0, 0, 0, 0, 0, 0, 0, 0 >>

\* UTF8_CHAR_WIDTH[b as usize]
Width(b) == UTF8_CHAR_WIDTH[b + 1]

\* x & 0b1100_0000 for a byte x
TopTwoBits(x) == (x \div 64) * 64

\* The cursor's mutable fields, as the methods below take and return them.
Self == [cursor |-> cursor, index |-> index]

\* ------------------------------------------------------ raw navigation
has_next(self) == self.cursor < end

peek_unchecked(self) == Deref(self.cursor)

peek(self) == IF ~has_next(self) THEN None ELSE Some(peek_unchecked(self))

can_rewind(self) == self.cursor > first

\* advance_unchecked that moves the cursor and leaves index alone.
advance_unchecked_keeps_index(self) ==
    [cursor |-> self.cursor + 1, index |-> self.index]

advance_unchecked(self) ==
    [cursor |-> self.cursor + 1, index |-> AddOne(self.index)]

advance(self) == IF has_next(self) THEN advance_unchecked(self) ELSE self

\* next that takes the last byte of the slice for the end.
next_stops_early(self) ==
    IF ~(self.cursor + 1 < end) THEN [self |-> self, ret |-> None]
    ELSE [self |-> advance_unchecked(self), ret |-> Some(peek_unchecked(self))]

next(self) ==
    IF ~has_next(self) THEN [self |-> self, ret |-> None]
    ELSE [self |-> advance_unchecked(self), ret |-> Some(peek_unchecked(self))]

\* rewind_unchecked that moves the cursor and leaves index alone.
rewind_unchecked_keeps_index(self, oc) ==
    [self |-> [cursor |-> self.cursor - 1, index |-> self.index],
     panic |-> FALSE, wrap |-> FALSE]

rewind_unchecked(self, oc) ==
    LET d == SubOne(self.index, oc) IN
    IF d.panic THEN [self |-> self, panic |-> TRUE, wrap |-> FALSE]
    ELSE [self |-> [cursor |-> self.cursor - 1, index |-> d.val],
          panic |-> FALSE, wrap |-> d.wrap]

\* rewind that does not ask can_rewind.
rewind_unguarded(self, oc) == rewind_unchecked(self, oc)

rewind(self, oc) ==
    IF can_rewind(self) THEN rewind_unchecked(self, oc)
    ELSE [self |-> self, panic |-> FALSE, wrap |-> FALSE]

\* ------------------------------------------- line-terminator navigation
\* next_lfn that hands a CR back as it is.
next_lfn_returns_cr(self) ==
    LET p == peek(self) IN
    IF p = None THEN [self |-> self, ret |-> None]
    ELSE IF p = Some(CR) THEN
        LET a == advance_unchecked(self) IN
        [self |-> IF peek(a) = Some(LF)
                  THEN [cursor |-> a.cursor + 1, index |-> a.index]
                  ELSE a,
         ret |-> p]
    ELSE [self |-> advance_unchecked(self), ret |-> p]

\* next_lfn that skips the byte after a CR without looking at it.
next_lfn_skips_unseen(self) ==
    LET p == peek(self) IN
    IF p = None THEN [self |-> self, ret |-> None]
    ELSE IF p = Some(CR) THEN
        LET a == advance_unchecked(self) IN
        [self |-> [cursor |-> a.cursor + 1, index |-> a.index], ret |-> Some(LF)]
    ELSE [self |-> advance_unchecked(self), ret |-> p]

next_lfn(self) ==
    LET p == peek(self) IN
    IF p = None THEN [self |-> self, ret |-> None]
    ELSE IF p = Some(CR) THEN
        LET a == advance_unchecked(self) IN
        [self |-> IF peek(a) = Some(LF)
                  THEN [cursor |-> a.cursor + 1, index |-> a.index]
                  ELSE a,
         ret |-> Some(LF)]
    ELSE [self |-> advance_unchecked(self), ret |-> p]

\* rewind_lfn that moves the cursor and leaves index alone.
rewind_lfn_keeps_index(self, oc) ==
    IF can_rewind(self) THEN
        LET c == self.cursor - 1 IN
        [self |-> [cursor |-> IF /\ Deref(c) = LF
                                 /\ c # first
                                 /\ Deref(c - 1) = CR
                              THEN c - 1 ELSE c,
                   index |-> self.index],
         panic |-> FALSE, wrap |-> FALSE]
    ELSE [self |-> self, panic |-> FALSE, wrap |-> FALSE]

\* rewind_lfn that never steps back over the CR of a CR LF pair.
rewind_lfn_one_byte(self, oc) ==
    IF can_rewind(self) THEN
        LET d == SubOne(self.index, oc) IN
        IF d.panic THEN [self |-> self, panic |-> TRUE, wrap |-> FALSE]
        ELSE [self |-> [cursor |-> self.cursor - 1, index |-> d.val],
              panic |-> FALSE, wrap |-> d.wrap]
    ELSE [self |-> self, panic |-> FALSE, wrap |-> FALSE]

rewind_lfn(self, oc) ==
    IF can_rewind(self) THEN
        LET d == SubOne(self.index, oc) IN
        IF d.panic THEN [self |-> self, panic |-> TRUE, wrap |-> FALSE]
        ELSE
            LET c == self.cursor - 1 IN
            [self |-> [cursor |-> IF /\ Deref(c) = LF
                                     /\ c # first
                                     /\ Deref(c - 1) = CR
                                  THEN c - 1 ELSE c,
                       index |-> d.val],
             panic |-> FALSE, wrap |-> d.wrap]
    ELSE [self |-> self, panic |-> FALSE, wrap |-> FALSE]

\* ------------------------------------------------------- UTF-8 advance
\* The macro with the mask 0b1000_0000: any byte from 0x80 up passes.
next_macro_top_bit(st, e, i) ==
    IF st.ret # "Ok" THEN st
    ELSE
        LET n == next_lfn(st.self) IN
        IF n.ret = None THEN [self |-> n.self, ret |-> e]
        ELSE IF (n.ret[1] \div 128) * 128 # 128 THEN [self |-> n.self, ret |-> i]
        ELSE [self |-> n.self, ret |-> "Ok"]

\* The next! macro of advance_char, applied while the call has not returned:
\* read one more byte with next_lfn; `e` when there is none, `i` when it is
\* not a continuation byte.
next_macro(st, e, i) ==
    IF st.ret # "Ok" THEN st
    ELSE
        LET n == next_lfn(st.self) IN
        IF n.ret = None THEN [self |-> n.self, ret |-> e]
        ELSE IF TopTwoBits(n.ret[1]) # 128 THEN [self |-> n.self, ret |-> i]
        ELSE [self |-> n.self, ret |-> "Ok"]

\* advance_char that leaves the LF after a CR for the next call.
advance_char_cr_alone(self) ==
    LET s0 == [cursor |-> self.cursor, index |-> AddOne(self.index)]
        n  == next(s0)
    IN
    IF n.ret = None THEN [self |-> n.self, ret |-> "Ok"]
    ELSE
        LET first_byte == n.ret[1]
            st == [self |-> n.self, ret |-> "Ok"]
        IN
        CASE Width(first_byte) = 0 ->
                [self |-> n.self, ret |-> "EncounteredContinuationByte"]
          [] Width(first_byte) = 1 -> st
          [] Width(first_byte) = 2 ->
                next_macro(st, "Missing2ndOf2", "Invalid2ndOf2")
          [] Width(first_byte) = 3 ->
                next_macro(
                    next_macro(st, "Missing2ndOf3", "Invalid2ndOf3"),
                    "Missing3rdOf3", "Invalid3rdOf3")
          [] Width(first_byte) = 4 ->
                next_macro(
                    next_macro(
                        next_macro(st, "Missing2ndOf4", "Invalid2ndOf4"),
                        "Missing3rdOf4", "Invalid3rdOf4"),
                    "Missing4thOf4", "Invalid4thOf4")

\* advance_char that looks at the lead byte with peek and moves past it only
\* when the width table knows it.
advance_char_keeps_bad_lead(self) ==
    LET s0 == [cursor |-> self.cursor, index |-> AddOne(self.index)]
        n  == next(s0)
    IN
    IF n.ret = None THEN [self |-> n.self, ret |-> "Ok"]
    ELSE
        LET first_byte == n.ret[1]
            st == [self |-> n.self, ret |-> "Ok"]
        IN
        CASE Width(first_byte) = 0 ->
                [self |-> s0, ret |-> "EncounteredContinuationByte"]
          [] Width(first_byte) = 1 ->
                [self |-> IF first_byte = CR /\ peek(n.self) = Some(LF)
                          THEN advance_unchecked(n.self)
                          ELSE n.self,
                 ret |-> "Ok"]
          [] Width(first_byte) = 2 ->
                next_macro(st, "Missing2ndOf2", "Invalid2ndOf2")
          [] Width(first_byte) = 3 ->
                next_macro(
                    next_macro(st, "Missing2ndOf3", "Invalid2ndOf3"),
                    "Missing3rdOf3", "Invalid3rdOf3")
          [] Width(first_byte) = 4 ->
                next_macro(
                    next_macro(
                        next_macro(st, "Missing2ndOf4", "Invalid2ndOf4"),
                        "Missing3rdOf4", "Invalid3rdOf4"),
                    "Missing4thOf4", "Invalid4thOf4")

advance_char(self) ==
    LET s0 == [cursor |-> self.cursor, index |-> AddOne(self.index)]
        n  == next(s0)
    IN
    IF n.ret = None THEN [self |-> n.self, ret |-> "Ok"]
    ELSE
        LET first_byte == n.ret[1]
            st == [self |-> n.self, ret |-> "Ok"]
        IN
        CASE Width(first_byte) = 0 ->
                [self |-> n.self, ret |-> "EncounteredContinuationByte"]
          [] Width(first_byte) = 1 ->
                [self |-> IF first_byte = CR /\ peek(n.self) = Some(LF)
                          THEN advance_unchecked(n.self)
                          ELSE n.self,
                 ret |-> "Ok"]
          [] Width(first_byte) = 2 ->
                next_macro(st, "Missing2ndOf2", "Invalid2ndOf2")
          [] Width(first_byte) = 3 ->
                next_macro(
                    next_macro(st, "Missing2ndOf3", "Invalid2ndOf3"),
                    "Missing3rdOf3", "Invalid3rdOf3")
          [] Width(first_byte) = 4 ->
                next_macro(
                    next_macro(
                        next_macro(st, "Missing2ndOf4", "Invalid2ndOf4"),
                        "Missing3rdOf4", "Invalid3rdOf4"),
                    "Missing4thOf4", "Invalid4thOf4")

\* ------------------------------------------------------------ accessors
\* Named index_ here: index is the field.
index_(self) == self.index

\* The (pointer, length) of the slice as_slice() builds.
as_slice(self) == [ptr |-> first, len |-> end - first]

\* ------------------------------------------------------------ Recorder
\* Recorder { start: self.cursor, cursor: self }
begin_recording(self) == [start |-> self.cursor]

\* stop() that takes the signed distance for the length.
stop_signed(recorder, self) ==
    [ptr |-> recorder.start, len |-> recorder.start - self.cursor]

\* The (pointer, length) of the &str that stop() builds.
stop(recorder, self) ==
    LET d == recorder.start - self.cursor IN
    [ptr |-> recorder.start, len |-> IF d < 0 THEN 0 - d ELSE d]

\* ------------------------------------------------------ history variables
\* The calls that take the cursor nowhere by their signature or their body.
QueryOps == {"peek", "has_next", "can_rewind", "index", "as_slice"}

\* No Recorder is open.
NoRecorder == [open |-> FALSE]

\* What has moved the cursor of the open Recorder so far: `by` is "none",
\* "char_ok" (advance_char calls that all returned Ok), "char" (advance_char
\* calls, some failed) or "mixed"; `calls` and `bytes` count the advance_char
\* calls and the bytes they consumed (kept only while by is not "mixed").
Observe(op, ret, delta) ==
    IF ~rec.open \/ op \in QueryOps THEN rec
    ELSE IF op = "advance_char" /\ rec.by # "mixed" THEN
        [rec EXCEPT !.by = IF ret = "Ok" /\ rec.by # "char" THEN "char_ok" ELSE "char",
                    !.calls = @ + 1,
                    !.bytes = @ + delta]
    ELSE [rec EXCEPT !.by = "mixed", !.calls = 0, !.bytes = 0]

\* A round trip from new: `fwd` forward calls that each moved the cursor, all
\* next_lfn (kind "lfn") or all next/advance (kind "raw"), then `back` calls of
\* the matching rewind, and no other navigation. Kind "char" counts in `fwd`
\* the advance_char calls made since new while nothing else moved the cursor.
\* Anything else ends it.
NoRound == [kind |-> "none", fwd |-> 0, back |-> 0]

Track(op, moved) ==
    IF op \in QueryOps \cup {"begin_recording", "stop"} THEN round
    ELSE IF /\ op = "next_lfn" /\ moved
            /\ round.kind \in {"new", "lfn"} /\ round.back = 0
        THEN [kind |-> "lfn", fwd |-> round.fwd + 1, back |-> 0]
    ELSE IF op = "rewind_lfn" /\ round.kind = "lfn" /\ round.back < round.fwd
        THEN [round EXCEPT !.back = @ + 1]
    ELSE IF /\ op \in {"next", "advance"} /\ moved
            /\ round.kind \in {"new", "raw"} /\ round.back = 0
        THEN [kind |-> "raw", fwd |-> round.fwd + 1, back |-> 0]
    ELSE IF op = "rewind" /\ round.kind = "raw" /\ round.back < round.fwd
        THEN [round EXCEPT !.back = @ + 1]
    ELSE IF op = "advance_char" /\ round.kind \in {"new", "char"}
        THEN [kind |-> "char", fwd |-> round.fwd + 1, back |-> 0]
    ELSE NoRound

\* What a rewind_lfn that follows at once on a next_lfn that returned a byte
\* has to restore: the fields before that next_lfn. Empty for any other call.
Undo(op) ==
    IF op = "rewind_lfn" /\ last.op = "next_lfn" /\ last.ret # None
    THEN <<[cursor |-> last.cursor, index |-> last.index]>>
    ELSE <<>>

\* One call: the fields it leaves, its return value, and the histories.
Step(op, self, ret, flt) ==
    /\ cursor' = self.cursor
    /\ index' = self.index
    /\ fault' = flt
    /\ last' = [op |-> op, ret |-> ret, cursor |-> cursor, index |-> index,
                undo |-> Undo(op)]
    /\ rec' = Observe(op, ret, self.cursor - cursor)
    /\ round' = Track(op, self.cursor # cursor)
    /\ UNCHANGED <<buf, first, end>>

\* A call of rewind or rewind_lfn, which may panic or wrap at index 0.
StepBack(op, r) ==
    IF r.panic THEN Step(op, Self, "panic", "panicked")
    ELSE Step(op, r.self, "()", IF r.wrap THEN "wrapped" ELSE fault)

\* -------------------------------------------------------------- actions
Running == fault # "panicked"

\* The calls are made while index is at most MaxIndex above 0 and at most
\* MaxWrap below it (below 0 are the values just under 2^64 that a wrapped
\* `index -= 1` leaves). A call that raises index is made while it is below
\* MaxIndex:
MayRaise == index[4] = LimbMax \/ (index[2] = 0 /\ index[1] < MaxIndex)
\* and one that lowers it while it is above 2^64 - MaxWrap.
MayLower == index[4] = 0 \/ index[1] > LimbMax + 1 - MaxWrap

Call_peek == Running /\ Step("peek", Self, peek(Self), fault)

Call_has_next == Running /\ Step("has_next", Self, has_next(Self), fault)

Call_can_rewind == Running /\ Step("can_rewind", Self, can_rewind(Self), fault)

Call_index == Running /\ Step("index", Self, index_(Self), fault)

Call_as_slice == Running /\ Step("as_slice", Self, as_slice(Self), fault)

Call_next ==
    /\ Running
    /\ MayRaise
    /\ LET r == next(Self) IN Step("next", r.self, r.ret, fault)

Call_advance == Running /\ MayRaise /\ Step("advance", advance(Self), "()", fault)

Call_rewind ==
    /\ Running
    /\ MayLower
    /\ \E oc \in OverflowChecks : StepBack("rewind", rewind(Self, oc))

Call_next_lfn ==
    /\ Running
    /\ MayRaise
    /\ LET r == next_lfn(Self) IN Step("next_lfn", r.self, r.ret, fault)

Call_rewind_lfn ==
    /\ Running
    /\ MayLower
    /\ \E oc \in OverflowChecks : StepBack("rewind_lfn", rewind_lfn(Self, oc))

Call_advance_char ==
    /\ Running
    /\ MayRaise
    /\ LET r == advance_char(Self) IN Step("advance_char", r.self, r.ret, fault)

Call_begin_recording ==
    /\ Running
    /\ ~rec.open
    /\ rec' = [open |-> TRUE, start |-> begin_recording(Self).start,
               by |-> "none", calls |-> 0, bytes |-> 0]
    /\ last' = [op |-> "begin_recording", ret |-> "Recorder",
                cursor |-> cursor, index |-> index, undo |-> <<>>]
    /\ UNCHANGED <<buf, first, cursor, end, index, fault, round>>

Call_stop ==
    /\ Running
    /\ rec.open
    /\ rec' = NoRecorder
    /\ last' = [op |-> "stop", ret |-> stop(rec, Self),
                cursor |-> cursor, index |-> index, undo |-> <<>>, rec |-> rec]
    /\ UNCHANGED <<buf, first, cursor, end, index, fault, round>>

\* ------------------------------------------------------- specifications
\* Every slice of at most n bytes over the bytes B.
Slices(B, n) == UNION {[1..k -> B] : k \in 0..n}

\* Cursor::new(slice)
new(slice) ==
    /\ buf = slice
    /\ first = 0
    /\ cursor = 0
    /\ end = Len(slice)
    /\ index = U64(0)
    /\ fault = "none"
    /\ rec = NoRecorder
    /\ last = [op |-> "new", ret |-> "Cursor", cursor |-> 0, index |-> U64(0),
               undo |-> <<>>]
    /\ round = [kind |-> "new", fwd |-> 0, back |-> 0]

\* LF, CR, a continuation byte and the lead byte of a 2-byte sequence.
Bytes == {LF, CR, 128, 194}

Init == \E slice \in Slices(Bytes, MaxLen) : new(slice)

Next ==
    \/ Call_peek
    \/ Call_has_next
    \/ Call_can_rewind
    \/ Call_index
    \/ Call_as_slice
    \/ Call_next
    \/ Call_advance
    \/ Call_rewind
    \/ Call_next_lfn
    \/ Call_rewind_lfn
    \/ Call_advance_char
    \/ Call_begin_recording
    \/ Call_stop

Spec == Init /\ [][Next]_vars

\* advance_char on its own ground: every slice of at most MaxCharLen bytes
\* over LF, CR, 'A', a continuation byte, 0xC0 (no lead byte of any sequence)
\* and a lead byte of each width, entered at every position by raw advance.
CharBytes == {LF, CR, 65, 128, 192, 194, 226, 240}

InitChar == \E slice \in Slices(CharBytes, MaxCharLen) : new(slice)

NextChar ==
    \/ Call_advance
    \/ Call_advance_char

SpecChar == InitChar /\ [][NextChar]_vars

\* A consumer's loop `while c.has_next() { let _ = c.advance_char(); }` over
\* every slice of at most MaxLoopLen bytes over LF, CR, a continuation byte and
\* the lead bytes of a 2-byte and a 3-byte sequence: one pass of its body. The loop is the only caller and a
\* sequential one, so a pass that can be made is made (the fairness below);
\* the position bounds the passes, so index needs no cap here.
Loop_advance_char ==
    /\ Running
    /\ has_next(Self)
    /\ LET r == advance_char(Self) IN Step("advance_char", r.self, r.ret, fault)

LoopBytes == {LF, CR, 128, 194, 226}

InitLoop == \E slice \in Slices(LoopBytes, MaxLoopLen) : new(slice)

NextLoop == Loop_advance_char

SpecLoop == InitLoop /\ [][NextLoop]_vars /\ WF_vars(NextLoop)

\* Raw navigation alone: next, advance and rewind on a fresh cursor over the
\* slices of Init.
InitRaw == \E slice \in Slices(Bytes, MaxLen) : new(slice)

NextRaw ==
    \/ Call_next
    \/ Call_advance
    \/ Call_rewind

SpecRaw == InitRaw /\ [][NextRaw]_vars

\* ---------------------------------------------------------------- claims
\* The bytes the last call moved the cursor forward over.
Consumed == SubSeq(buf, last.cursor - first + 1, cursor - first)

\* C1: in every reachable state first <= position <= end, whatever checked
\* calls were made on the cursor since new.
C1_PositionInBounds == first <= cursor /\ cursor <= end

\* C1 witness: advance_char has read a lead byte and then, through next_lfn, a
\* CR LF pair that ends the slice: three bytes in one call, up to end.
C1_Witness ==
    /\ last.op = "advance_char"
    /\ last.ret = "Invalid2ndOf2"
    /\ last.cursor = end - 3
    /\ cursor = end

\* C2 (as claimed): every call of advance_char raises index by exactly 1.
C2_IndexPlusOne ==
    last.op = "advance_char" => index = AddOne(last.index)

\* C3 uses a reference for well-formed UTF-8 (Unicode, table 3-7).
IsContinuation(b) == b \in 128..191

WellFormedChar(bs) ==
    \/ Len(bs) = 1 /\ bs[1] \in 0..127
    \/ Len(bs) = 2 /\ bs[1] \in 194..223 /\ IsContinuation(bs[2])
    \/ /\ Len(bs) = 3
       /\ \/ bs[1] = 224 /\ bs[2] \in 160..191
          \/ bs[1] \in (225..236) \cup (238..239) /\ IsContinuation(bs[2])
          \/ bs[1] = 237 /\ bs[2] \in 128..159
       /\ IsContinuation(bs[3])
    \/ /\ Len(bs) = 4
       /\ \/ bs[1] = 240 /\ bs[2] \in 144..191
          \/ bs[1] \in 241..243 /\ IsContinuation(bs[2])
          \/ bs[1] = 244 /\ bs[2] \in 128..143
       /\ IsContinuation(bs[3])
       /\ IsContinuation(bs[4])

\* C3 (as claimed): when advance_char returns Ok after consuming at least one
\* byte, the bytes it consumed are one well-formed UTF-8 character or CR LF.
C3_OkIsWellFormed ==
    (last.op = "advance_char" /\ last.ret = "Ok" /\ cursor > last.cursor)
        => (WellFormedChar(Consumed) \/ Consumed = <<CR, LF>>)

\* C4: a Recorder opened at start and stopped with the cursor at p >= start
\* returns the bytes [start, p): none when nothing moved the cursor, and after
\* advance_char calls alone as many bytes as those calls consumed.
C4_ForwardRecording ==
    (last.op = "stop" /\ last.rec.start <= cursor)
        => /\ last.ret.ptr = last.rec.start
           /\ last.ret.len = cursor - last.rec.start
           /\ last.rec.by = "none" => last.ret.len = 0
           /\ last.rec.by \in {"char", "char_ok"} => last.ret.len = last.rec.bytes

\* C4 witness: two advance_char calls, the first over a CR LF pair, recorded
\* as three bytes.
C4_Witness ==
    /\ last.op = "stop"
    /\ last.rec.by = "char_ok"
    /\ last.rec.calls = 2
    /\ last.ret.len = 3
    /\ SubSeq(buf, last.ret.ptr - first + 1, last.ret.ptr - first + 2) = <<CR, LF>>

\* C5 (as claimed): a Recorder stopped with the cursor rewound to p < start
\* returns the bytes [p, start), and every returned view lies inside
\* [first, end).
C5_BackwardRecording ==
    last.op = "stop"
        => /\ cursor < last.rec.start
              => /\ last.ret.ptr = cursor
                 /\ last.ret.len = last.rec.start - cursor
           /\ first <= last.ret.ptr
           /\ last.ret.ptr + last.ret.len <= end

\* C6: from new, n calls of next_lfn that each return a byte, then n calls of
\* rewind_lfn and no other navigation, leave the cursor at its original
\* position with its original index.
C6_LfnRoundTrip ==
    (round.kind = "lfn" /\ round.back = round.fwd)
        => (cursor = first /\ index = U64(0) /\ fault = "none")

\* C6 witness: a round trip of two calls each way over a CR LF pair and one
\* more byte.
C6_Witness ==
    /\ round.kind = "lfn"
    /\ round.fwd = 2
    /\ round.back = 2
    /\ Len(buf) = 3
    /\ SubSeq(buf, 1, 2) = <<CR, LF>>

\* C7: from new, k calls of advance or next, each made while has_next, then k
\* calls of rewind, restore the original position and index.
C7_RawRoundTrip ==
    (round.kind = "raw" /\ round.back = round.fwd)
        => (cursor = first /\ index = U64(0) /\ fault = "none")

\* C7 witness: to the end of a slice of MaxLen bytes and back.
C7_Witness ==
    /\ round.kind = "raw"
    /\ round.fwd = Len(buf)
    /\ round.back = Len(buf)
    /\ Len(buf) = MaxLen
    /\ last.op = "rewind"

\* The names of the errors for byte k of a sequence of L bytes.
MissingOf(k, L) ==
    CASE k = 2 /\ L = 2 -> "Missing2ndOf2"
      [] k = 2 /\ L = 3 -> "Missing2ndOf3"
      [] k = 3 /\ L = 3 -> "Missing3rdOf3"
      [] k = 2 /\ L = 4 -> "Missing2ndOf4"
      [] k = 3 /\ L = 4 -> "Missing3rdOf4"
      [] k = 4 /\ L = 4 -> "Missing4thOf4"

InvalidOf(k, L) ==
    CASE k = 2 /\ L = 2 -> "Invalid2ndOf2"
      [] k = 2 /\ L = 3 -> "Invalid2ndOf3"
      [] k = 3 /\ L = 3 -> "Invalid3rdOf3"
      [] k = 2 /\ L = 4 -> "Invalid2ndOf4"
      [] k = 3 /\ L = 4 -> "Invalid3rdOf4"
      [] k = 4 /\ L = 4 -> "Invalid4thOf4"

\* The last call was advance_char on a lead byte of width L.
CharCallOfWidth(L) ==
    /\ last.op = "advance_char"
    /\ last.cursor < end
    /\ Width(Deref(last.cursor)) = L

\* The positions k in 2..L, counted from the lead byte the last call read,
\* that hold no continuation byte.
NotContinued(L) ==
    {k \in 2..L : \/ last.cursor + k - 1 >= end
                  \/ ~IsContinuation(Deref(last.cursor + k - 1))}

Least(S) == CHOOSE k \in S : \A j \in S : k <= j

\* C8: on a lead byte of width L in {2,3,4} advance_char returns at the first
\* k in 2..L whose byte is no continuation byte, Missing<k>Of<L> when the
\* input ends there and Invalid<k>Of<L> when a byte is there, and Ok only when
\* all L-1 following bytes are continuation bytes.
C8_FirstBadByteDecides ==
    \A L \in 2..4 :
        CharCallOfWidth(L) =>
            IF NotContinued(L) = {} THEN last.ret = "Ok"
            ELSE LET k == Least(NotContinued(L)) IN
                 last.ret = IF last.cursor + k - 1 >= end
                            THEN MissingOf(k, L) ELSE InvalidOf(k, L)

\* C8 witness: a 4-byte lead and two continuation bytes, then the end.
C8_Witness ==
    /\ CharCallOfWidth(4)
    /\ last.ret = "Missing4thOf4"
    /\ end - last.cursor = 3

\* The last call was advance_char and it returned the error for byte k of L.
ReturnedInvalid(k, L) == last.op = "advance_char" /\ last.ret = InvalidOf(k, L)
ReturnedMissing(k, L) == last.op = "advance_char" /\ last.ret = MissingOf(k, L)

\* C9 (as claimed): after an error no byte beyond the failing one is consumed:
\* EncounteredContinuationByte leaves the position one past the lead byte,
\* Invalid<k>Of<L> exactly k bytes past where the call began, Missing<k>Of<L>
\* at end.
C9_NothingPastFailingByte ==
    /\ (last.op = "advance_char" /\ last.ret = "EncounteredContinuationByte")
          => cursor = last.cursor + 1
    /\ \A L \in 2..4 : \A k \in 2..L :
          /\ ReturnedInvalid(k, L) => cursor = last.cursor + k
          /\ ReturnedMissing(k, L) => cursor = end

\* C10 (as claimed): advance_char returns EncounteredContinuationByte exactly
\* when the byte at the position before the call is a continuation byte, one
\* of 0x80-0xBF.
C10_ContinuationByteError ==
    last.op = "advance_char" =>
        (last.ret = "EncounteredContinuationByte"
            <=> (last.cursor < end /\ IsContinuation(Deref(last.cursor))))

\* C11: in every reachable state has_next() is false exactly when peek() and
\* next() both return None, and when it is true both return the byte at the
\* current position.
C11_HasNextPeekNext ==
    /\ (~has_next(Self)) <=> (peek(Self) = None /\ next(Self).ret = None)
    /\ has_next(Self) <=> cursor < end
    /\ cursor < end =>
          /\ peek(Self) = Some(buf[cursor - first + 1])
          /\ next(Self).ret = Some(buf[cursor - first + 1])
    /\ last.op = "peek" =>
          last.ret = IF cursor < end THEN Some(buf[cursor - first + 1]) ELSE None
    /\ last.op = "next" =>
          last.ret = IF last.cursor < end
                     THEN Some(buf[last.cursor - first + 1]) ELSE None
    /\ last.op = "has_next" => (last.ret <=> cursor < end)

\* C11 witness: next has returned the last byte of a slice, and has_next,
\* peek and next all see the end.
C11_Witness ==
    /\ last.op = "next"
    /\ last.ret # None
    /\ end > first
    /\ ~has_next(Self)
    /\ peek(Self) = None
    /\ next(Self).ret = None

\* C12: next_lfn at the end returns None and changes nothing; on CR followed
\* by LF it returns LF and moves the position by 2; on any other CR it returns
\* LF and moves it by 1; on any other byte it returns the byte and moves it by
\* 1; whenever it returns a byte index is one more (as a u64).
C12_NextLfn ==
    last.op = "next_lfn" =>
        LET p == last.cursor IN
        IF p >= end THEN
            last.ret = None /\ cursor = p /\ index = last.index
        ELSE
            /\ index = AddOne(last.index)
            /\ IF Deref(p) = CR /\ p + 1 < end /\ Deref(p + 1) = LF
               THEN last.ret = Some(LF) /\ cursor = p + 2
               ELSE IF Deref(p) = CR
               THEN last.ret = Some(LF) /\ cursor = p + 1
               ELSE last.ret = Some(Deref(p)) /\ cursor = p + 1

\* C12 witness: next_lfn has read a CR LF pair that does not start the slice.
C12_Witness ==
    /\ last.op = "next_lfn"
    /\ last.cursor > first
    /\ cursor = last.cursor + 2
    /\ last.ret = Some(LF)

\* The last two calls were next_lfn, which returned a byte, and rewind_lfn.
LfnThenRewindLfn == last.op = "rewind_lfn" /\ last.undo # <<>>

\* The position p lies between the CR and the LF of a CR LF pair.
InsideCrLf(p) == p > first /\ p < end /\ Deref(p) = LF /\ Deref(p - 1) = CR

\* C13 (as claimed): from any reachable state, a next_lfn that returns a byte
\* and the rewind_lfn right after it restore the position and the index.
C13_RewindLfnInverse ==
    LfnThenRewindLfn =>
        /\ fault # "panicked"
        /\ cursor = last.undo[1].cursor
        /\ index = last.undo[1].index

\* C13 (amended): the same, from any reachable state whose position is not
\* between the CR and the LF of a CR LF pair.
C13_RewindLfnInverseOutsideCrLf ==
    (LfnThenRewindLfn /\ ~InsideCrLf(last.undo[1].cursor)) =>
        /\ fault # "panicked"
        /\ cursor = last.undo[1].cursor
        /\ index = last.undo[1].index

\* C13 witness: after raw navigation, next_lfn has read a CR LF pair and
\* rewind_lfn has taken both bytes back.
C13_Witness ==
    /\ LfnThenRewindLfn
    /\ last.undo[1].cursor > first
    /\ last.cursor = last.undo[1].cursor + 2
    /\ cursor = last.undo[1].cursor

\* C14: when advance_char returns Ok, the position is unchanged if the cursor
\* was at the end; otherwise it has moved by the width-table value of the lead
\* byte, or by 2 when the lead byte is a CR with an LF right after it.
C14_OkAdvancesByWidth ==
    (last.op = "advance_char" /\ last.ret = "Ok") =>
        LET p == last.cursor IN
        IF p >= end THEN cursor = p
        ELSE IF Deref(p) = CR /\ p + 1 < end /\ Deref(p + 1) = LF
        THEN cursor = p + 2
        ELSE /\ cursor = p + UTF8_CHAR_WIDTH[Deref(p) + 1]
             /\ UTF8_CHAR_WIDTH[Deref(p) + 1] \in 1..4

\* C14 witness: a 3-byte sequence consumed whole, after another character.
C14_Witness ==
    /\ last.op = "advance_char"
    /\ last.ret = "Ok"
    /\ last.cursor > first
    /\ cursor = last.cursor + 3
    /\ Consumed = <<226, 128, 128>>

\* C15: every advance_char call made while has_next() is true moves the
\* position strictly forward, whether it returns Ok or an error, so the loop
\* `while has_next() { advance_char() }` has made at most as many passes as the
\* position has moved and reaches has_next() = false.
C15_PassMovesForward ==
    /\ last.op = "advance_char" => cursor > last.cursor
    /\ round.kind = "char" => round.fwd <= cursor - first

C15_LoopTerminates ==
    /\ []C15_PassMovesForward
    /\ <>(~has_next(Self) /\ (round.kind = "char" => round.fwd <= end - first))

\* C15 witness: the loop has come to the end of a slice in as many passes as
\* the slice has bytes, the last of them an error.
C15_Witness ==
    /\ ~has_next(Self)
    /\ round.kind = "char"
    /\ round.fwd = MaxLoopLen
    /\ round.fwd = end - first
    /\ last.op = "advance_char"
    /\ last.ret = "EncounteredContinuationByte"

\* The last call was one that C16 says changes nothing: advance or next at
\* the end, rewind or rewind_lfn at first, or any of the accessors.
SaturatedOrQuery ==
    \/ last.op \in {"advance", "next"} /\ last.cursor = end
    \/ last.op \in {"rewind", "rewind_lfn"} /\ last.cursor = first
    \/ last.op \in {"peek", "has_next", "can_rewind", "index", "as_slice"}

\* C16: advance() and next() at position = end, rewind() and rewind_lfn() at
\* position = first, and peek(), has_next(), can_rewind(), index() and
\* as_slice() in any state leave position and index as they were.
C16_SaturatesWithoutEffect ==
    SaturatedOrQuery =>
        /\ cursor = last.cursor
        /\ index = last.index
        /\ fault # "panicked"

\* C16 witness: rewind_lfn called at first on a cursor whose index is not 0
\* (next_lfn over CR LF, then one raw rewind and one rewind_lfn, leave it so).
C16_Witness ==
    /\ last.op = "rewind_lfn"
    /\ last.cursor = first
    /\ cursor = first
    /\ index # U64(0)
    /\ end > first

\* The next! macro with raw next in the place of next_lfn: the variant C17
\* compares the code with.
next_macro_raw(st, e, i) ==
    IF st.ret # "Ok" THEN st
    ELSE
        LET n == next(st.self) IN
        IF n.ret = None THEN [self |-> n.self, ret |-> e]
        ELSE IF TopTwoBits(n.ret[1]) # 128 THEN [self |-> n.self, ret |-> i]
        ELSE [self |-> n.self, ret |-> "Ok"]

\* advance_char with every continuation byte read through next_macro_raw.
advance_char_raw(self) ==
    LET s0 == [cursor |-> self.cursor, index |-> AddOne(self.index)]
        n  == next(s0)
    IN
    IF n.ret = None THEN [self |-> n.self, ret |-> "Ok"]
    ELSE
        LET first_byte == n.ret[1]
            st == [self |-> n.self, ret |-> "Ok"]
        IN
        CASE Width(first_byte) = 0 ->
                [self |-> n.self, ret |-> "EncounteredContinuationByte"]
          [] Width(first_byte) = 1 ->
                [self |-> IF first_byte = CR /\ peek(n.self) = Some(LF)
                          THEN advance_unchecked(n.self)
                          ELSE n.self,
                 ret |-> "Ok"]
          [] Width(first_byte) = 2 ->
                next_macro_raw(st, "Missing2ndOf2", "Invalid2ndOf2")
          [] Width(first_byte) = 3 ->
                next_macro_raw(
                    next_macro_raw(st, "Missing2ndOf3", "Invalid2ndOf3"),
                    "Missing3rdOf3", "Invalid3rdOf3")
          [] Width(first_byte) = 4 ->
                next_macro_raw(
                    next_macro_raw(
                        next_macro_raw(st, "Missing2ndOf4", "Invalid2ndOf4"),
                        "Missing3rdOf4", "Invalid3rdOf4"),
                    "Missing4thOf4", "Invalid4thOf4")

\* C17: advance_char reading its continuation bytes through next_lfn returns
\* the same result and leaves the same position and index as advance_char
\* reading them through raw next, from every starting position.
C17_LfnReadEqualsRawRead ==
    last.op = "advance_char" =>
        LET r == advance_char_raw([cursor |-> last.cursor, index |-> last.index])
        IN  /\ last.ret = r.ret
            /\ cursor = r.self.cursor
            /\ index = r.self.index

\* C18: index never underflows: no rewind or rewind_lfn has decremented it
\* at 0 (neither the overflow panic nor a wrap to 2^64 - 1 has happened), and
\* whenever can_rewind() is true, index > 0.
C18_IndexNeverUnderflows ==
    /\ fault = "none"
    /\ can_rewind(Self) => index # U64(0)

\* C19: under next, advance and rewind alone, index is the number of bytes
\* consumed: index = position - first in every reachable state (and so no
\* rewind decrements it at 0).
C19_IndexIsBytesConsumed ==
    /\ index = U64(cursor - first)
    /\ fault = "none"

\* C19 witness: a rewind that took effect after the whole of a MaxLen-byte
\* slice had been consumed.
C19_Witness ==
    /\ last.op = "rewind"
    /\ last.cursor = end
    /\ end - first = MaxLen
    /\ cursor = end - 1
    /\ index = U64(MaxLen - 1)

====
